---- MODULE Spec2Model ----
(***************************************************************************)
(* The todo frontend (src/todo_frontend/src/App.js) as a state machine.    *)
(*                                                                         *)
(* State: the hooks of App (todos, loading, err), the closure flag of the  *)
(* initial-load effect (mounted), the hooks of NewTaskInput (title, busy), *)
(* the busy hook of every TodoItem (itemBusy), the HTTP calls in flight    *)
(* with what each handler's closure captured (inflight), and the backend's *)
(* task collection (remote, nextId).  history records what has happened in *)
(* the run: the load was applied (loaded), two PATCH calls for one task    *)
(* were in flight together (raced), the response to a request the backend  *)
(* had applied was lost (lost), the ids of the entries a successful delete *)
(* took out of the collection (removed).  No action reads it.              *)
(*                                                                         *)
(* A handler runs atomically up to its await; the continuation after the   *)
(* await is the matching ...Settle action.  The rendered view is taken to  *)
(* be the current hook state: the props and memos a handler closes over    *)
(* (item, byId, loading, busy) are read from the state the handler starts  *)
(* in.  setState calls of a continuation that runs after Unmount are       *)
(* applied as written in the source.                                       *)
(*                                                                         *)
(* Of a TodoItem, the editing and val hooks are folded into Commit: val is  *)
(* the text of the edit input when commit runs.  issued counts the calls   *)
(* made, for the bound MaxCalls.  The backend is not part of the source:   *)
(* ServerHandle, ServerError and NetworkFailure follow the HTTP resource   *)
(* contract.                                                               *)
(*                                                                         *)
(* Titles and input texts are sequences of one-character strings, so that  *)
(* String.prototype.trim is computed, not assumed.                         *)
(*                                                                         *)
(* Specifications: Spec is the App from its construction on; FairSpec and  *)
(* FairAddSpec add that the load, or a create, is answered and settles;    *)
(* ControllerSpec adds editTask called with an id that has no entry;       *)
(* TasksSpec starts from the loaded App and runs toggle, edit and delete.  *)
(***************************************************************************)
EXTENDS Integers, Sequences, FiniteSets, TLC

\* Bounds of the model: the tasks the backend holds at the start, and the
\* HTTP calls issued in one run (the initial load is the first).
MaxSeed == 1
MaxCalls == 3

\* HTTP status of an empty successful response (App.js line 24).
NoContent == 204

VARIABLES todos, loading, err, mounted, effectRan, title, busy, itemBusy,
          inflight, issued, remote, nextId, history

vars == <<todos, loading, err, mounted, effectRan, title, busy, itemBusy,
          inflight, issued, remote, nextId, history>>

----------------------------------------------------------------------------
\* Texts

\* The texts a user types: empty, blank, padded, plain
Texts == {<<>>, <<" ", " ">>, <<" ", "a", " ">>, <<"b">>}

IsSpace(c) == c = " "

RECURSIVE TrimStart(_)
TrimStart(s) ==
  IF s = <<>> THEN s
  ELSE IF IsSpace(Head(s)) THEN TrimStart(Tail(s)) ELSE s

RECURSIVE TrimEnd(_)
TrimEnd(s) ==
  IF s = <<>> THEN s
  ELSE IF IsSpace(s[Len(s)]) THEN TrimEnd(SubSeq(s, 1, Len(s) - 1)) ELSE s

\* String.prototype.trim
Trim(s) == TrimEnd(TrimStart(s))

\* a || b on strings: the empty string is falsy
OrElse(a, b) == IF a = "" THEN b ELSE a

----------------------------------------------------------------------------
\* Tasks and lists of tasks

NoTask == [id |-> 0, title |-> <<>>, completed |-> FALSE]

Ids(list) == {list[i].id : i \in 1..Len(list)}

HasId(list, id) == id \in Ids(list)

\* { ...t, ...fields }
Spread(t, fields) ==
  [f \in DOMAIN t |-> IF f \in DOMAIN fields THEN fields[f] ELSE t[f]]

----------------------------------------------------------------------------
\* The setState updaters of the CRUD handlers

\* byId.get(id): the entries with that id, in list order; Map.set keeps the last
ById(list, id) == SelectSeq(list, LAMBDA t : t.id = id)

Last(list) == list[Len(list)]

\* Mutant of Prepend: the created task goes to the end
PrependAtEnd(prev, created) == Append(prev, created)

\* (prev) => [created, ...prev]
Prepend(prev, created) == <<created>> \o prev

\* Mutant of RemoveById: drops the head of the list, whatever its id
RemoveHead(prev, id) == IF prev = <<>> THEN prev ELSE Tail(prev)

\* Mutant of RemoveById: the predicate inverted, === for !==
RemoveByIdInverted(prev, id) == SelectSeq(prev, LAMBDA t : t.id = id)

\* (prev) => prev.filter((t) => t.id !== id)
RemoveById(prev, id) == SelectSeq(prev, LAMBDA t : t.id # id)

\* Mutant of OptimisticToggle: the id test left out
OptimisticToggleEvery(prev, item) ==
  [k \in 1..Len(prev) |->
     LET t == prev[k] IN Spread(t, [completed |-> ~t.completed])]

\* (prev) => prev.map((t) => (t.id === item.id ? { ...t, completed: !t.completed } : t))
OptimisticToggle(prev, item) ==
  [k \in 1..Len(prev) |->
     LET t == prev[k] IN
       IF t.id = item.id THEN Spread(t, [completed |-> ~t.completed]) ELSE t]

\* Mutant of ReconcileToggle: the id test left out
ReconcileToggleEvery(prev, updated) == [k \in 1..Len(prev) |-> updated]

\* Mutant of ReconcileToggle: only completed is taken from the response
ReconcileToggleCompletedOnly(prev, updated) ==
  [k \in 1..Len(prev) |->
     LET t == prev[k] IN
       IF t.id = updated.id THEN [t EXCEPT !.completed = updated.completed] ELSE t]

\* (prev) => prev.map((t) => (t.id === updated.id ? updated : t))
ReconcileToggle(prev, updated) ==
  [k \in 1..Len(prev) |->
     LET t == prev[k] IN
       IF t.id = updated.id THEN updated ELSE t]

\* Mutant of RollbackToggle: undoes the flip by flipping again
RollbackToggleByFlip(prev, item) ==
  [k \in 1..Len(prev) |->
     LET t == prev[k] IN
       IF t.id = item.id THEN Spread(t, [completed |-> ~t.completed]) ELSE t]

\* (prev) => prev.map((t) => (t.id === item.id ? { ...t, completed: item.completed } : t))
RollbackToggle(prev, item) ==
  [k \in 1..Len(prev) |->
     LET t == prev[k] IN
       IF t.id = item.id THEN Spread(t, [completed |-> item.completed]) ELSE t]

\* (prev) => prev.map((t) => (t.id === id ? { ...t, title } : t))
OptimisticEdit(prev, id, newTitle) ==
  [k \in 1..Len(prev) |->
     LET t == prev[k] IN
       IF t.id = id THEN Spread(t, [title |-> newTitle]) ELSE t]

\* Mutant of ReconcileEdit: the returned task is put in when no entry has
\* the id
ReconcileEditUpserts(prev, id, updated) ==
  IF HasId(prev, id)
  THEN [k \in 1..Len(prev) |-> LET t == prev[k] IN IF t.id = id THEN updated ELSE t]
  ELSE Append(prev, updated)

\* (prev) => prev.map((t) => (t.id === id ? updated : t))
ReconcileEdit(prev, id, updated) ==
  [k \in 1..Len(prev) |->
     LET t == prev[k] IN
       IF t.id = id THEN updated ELSE t]

\* Mutant of RollbackEdit: restores the title alone
RollbackEditTitleOnly(prev, id, existing) ==
  [k \in 1..Len(prev) |->
     LET t == prev[k] IN
       IF t.id = id THEN Spread(t, [title |-> existing.title]) ELSE t]

\* (prev) => prev.map((t) => (t.id === id ? existing : t))
RollbackEdit(prev, id, existing) ==
  [k \in 1..Len(prev) |->
     LET t == prev[k] IN
       IF t.id = id THEN existing ELSE t]

----------------------------------------------------------------------------
\* HTTP: responses and apiFetch

\* A response: status 0 stands for a fetch that rejected (no response at
\* all); text is the body read as text; empty says the body has no content;
\* json is the body parsed.
NoResponse == [status |-> -1, text |-> "", empty |-> TRUE, json |-> <<>>]

Rejected == [status |-> 0, text |-> "", empty |-> TRUE, json |-> <<>>]

JsonResponse(status, value) ==
  [status |-> status, text |-> "json", empty |-> FALSE, json |-> value]

EmptyResponse(status) ==
  [status |-> status, text |-> "", empty |-> TRUE, json |-> <<>>]

TextResponse(status, text) ==
  [status |-> status, text |-> text, empty |-> text = "", json |-> <<>>]

\* res.ok
ResOk(res) == res.status >= 200 /\ res.status <= 299

Throw(message) == [threw |-> TRUE, message |-> message, isNull |-> FALSE, value |-> <<>>]

Return(value) == [threw |-> FALSE, message |-> "", isNull |-> FALSE, value |-> value]

ReturnNull == [threw |-> FALSE, message |-> "", isNull |-> TRUE, value |-> <<>>]

\* res.json(): an empty body is not JSON
ParseJson(res) ==
  IF res.empty THEN Throw("Unexpected end of JSON input") ELSE Return(res.json)

\* Mutant of ApiFetch: the 204 case left out
ApiFetchParsesAlways(res) ==
  IF res.status = 0 THEN Throw("Failed to fetch")
  ELSE IF ~ResOk(res)
       THEN Throw(OrElse(res.text,
                         "Request failed with status " \o ToString(res.status)))
       ELSE ParseJson(res)

\* apiFetch, from the response on: what the awaited call returns or throws
ApiFetch(res) ==
  IF res.status = 0 THEN Throw("Failed to fetch")
  ELSE IF ~ResOk(res)
       THEN Throw(OrElse(res.text,
                         "Request failed with status " \o ToString(res.status)))
       ELSE IF res.status = NoContent THEN ReturnNull
            ELSE ParseJson(res)

----------------------------------------------------------------------------
\* Calls in flight

\* One call: the handler that issued it (op), the request (method, id of
\* the path, body), what the handler's closure holds for its continuation
\* (item: toggleTask's item, editTask's existing), and the response once
\* there is one.
NoBody == [none |-> TRUE]

Call(op, method, id, body, item) ==
  [op |-> op, method |-> method, id |-> id, body |-> body, item |-> item,
   phase |-> "sent", applied |-> FALSE, res |-> NoResponse]

RemoveAt(list, i) == SubSeq(list, 1, i - 1) \o SubSeq(list, i + 1, Len(list))

Pending(op) == \E i \in 1..Len(inflight) : inflight[i].op = op

IsPatchOf(c, id) == c.method = "PATCH" /\ c.id = id

\* fetch(...): the request leaves; the handler suspends at its await
Issue(call) ==
  /\ issued < MaxCalls
  /\ issued' = issued + 1
  /\ inflight' = Append(inflight, call)
  /\ history' = [history EXCEPT !.raced =
                    @ \/ (call.method = "PATCH"
                          /\ \E i \in 1..Len(inflight) : IsPatchOf(inflight[i], call.id))]

Replied(i) == i \in 1..Len(inflight) /\ inflight[i].phase = "replied"

Sent(i) == i \in 1..Len(inflight) /\ inflight[i].phase = "sent"

----------------------------------------------------------------------------
\* Initial state: App constructed and rendered once, its effects not yet
\* run; the backend holds up to MaxSeed tasks with the ids 1..n.

SeedTitle(i) == IF i % 2 = 1 THEN <<"a">> ELSE <<"b">>

SeedDone(i) == i % 2 = 0

Seeds == {[i \in 1..n |-> [id |-> i, title |-> SeedTitle(i),
                           completed |-> SeedDone(i)]] : n \in 0..MaxSeed}

Init ==
  /\ todos = <<>>
  /\ loading = TRUE
  /\ err = ""
  /\ mounted = TRUE
  /\ effectRan = FALSE
  /\ title = <<>>
  /\ busy = FALSE
  /\ itemBusy = {}
  /\ inflight = <<>>
  /\ issued = 0
  /\ remote \in Seeds
  /\ nextId = Len(remote) + 1
  /\ history = [loaded |-> FALSE, raced |-> FALSE, lost |-> FALSE,
                removed |-> {}]

----------------------------------------------------------------------------
\* App: the initial load effect

\* useEffect(() => { let mounted = true; (async () => { setErr('');
\* setLoading(true); const list = await apiFetch('/todos'); ...
LoadStart ==
  /\ mounted
  /\ ~effectRan
  /\ effectRan' = TRUE
  /\ err' = ""
  /\ loading' = TRUE
  /\ Issue(Call("load", "GET", 0, NoBody, NoTask))
  /\ UNCHANGED <<todos, mounted, title, busy, itemBusy, remote, nextId>>

\* Mutant of LoadSettle: setLoading(false) in the catch, not in a finally
LoadSettleClearsInCatch(i) ==
  /\ Replied(i)
  /\ inflight[i].op = "load"
  /\ LET r == ApiFetch(inflight[i].res) IN
       /\ todos' = IF mounted /\ ~r.threw
                   THEN (IF r.isNull THEN <<>> ELSE r.value) ELSE todos
       /\ err' = IF mounted /\ r.threw
                 THEN OrElse(r.message, "Failed to load tasks") ELSE err
       /\ loading' = IF mounted /\ r.threw THEN FALSE ELSE loading
       /\ history' = [history EXCEPT !.loaded = mounted /\ ~r.threw]
  /\ inflight' = RemoveAt(inflight, i)
  /\ UNCHANGED <<issued, mounted, effectRan, title, busy, itemBusy, remote, nextId>>

\* Mutant of LoadSettle: setLoading(false) at the end of the try, not in a
\* finally
LoadSettleClearsInTry(i) ==
  /\ Replied(i)
  /\ inflight[i].op = "load"
  /\ LET r == ApiFetch(inflight[i].res) IN
       /\ todos' = IF mounted /\ ~r.threw
                   THEN (IF r.isNull THEN <<>> ELSE r.value) ELSE todos
       /\ err' = IF mounted /\ r.threw
                 THEN OrElse(r.message, "Failed to load tasks") ELSE err
       /\ loading' = IF mounted /\ ~r.threw THEN FALSE ELSE loading
       /\ history' = [history EXCEPT !.loaded = mounted /\ ~r.threw]
  /\ inflight' = RemoveAt(inflight, i)
  /\ UNCHANGED <<issued, mounted, effectRan, title, busy, itemBusy, remote, nextId>>

\* Mutant of LoadSettle: the mounted flag is not tested
LoadSettleUnguarded(i) ==
  /\ Replied(i)
  /\ inflight[i].op = "load"
  /\ LET r == ApiFetch(inflight[i].res) IN
       /\ todos' = IF ~r.threw
                   THEN (IF r.isNull THEN <<>> ELSE r.value) ELSE todos
       /\ err' = IF r.threw
                 THEN OrElse(r.message, "Failed to load tasks") ELSE err
       /\ loading' = FALSE
       /\ history' = [history EXCEPT !.loaded = mounted /\ ~r.threw]
  /\ inflight' = RemoveAt(inflight, i)
  /\ UNCHANGED <<issued, mounted, effectRan, title, busy, itemBusy, remote, nextId>>

\* ... if (mounted) setTodos(list || []); } catch (e) { if (mounted)
\* setErr(e.message || 'Failed to load tasks'); } finally { if (mounted)
\* setLoading(false); } })();
LoadSettle(i) ==
  /\ Replied(i)
  /\ inflight[i].op = "load"
  /\ LET r == ApiFetch(inflight[i].res) IN
       /\ todos' = IF mounted /\ ~r.threw
                   THEN (IF r.isNull THEN <<>> ELSE r.value) ELSE todos
       /\ err' = IF mounted /\ r.threw
                 THEN OrElse(r.message, "Failed to load tasks") ELSE err
       /\ loading' = IF mounted THEN FALSE ELSE loading
       /\ history' = [history EXCEPT !.loaded = mounted /\ ~r.threw]
  /\ inflight' = RemoveAt(inflight, i)
  /\ UNCHANGED <<issued, mounted, effectRan, title, busy, itemBusy, remote, nextId>>

\* return () => { mounted = false; };  the page is gone: no user event
\* follows.  Only the load's continuation reads the flag; a teardown after
\* the load has settled is a run in which the user stays idle.
Unmount ==
  /\ mounted
  /\ ~effectRan \/ Pending("load")
  /\ mounted' = FALSE
  /\ UNCHANGED <<issued, todos, loading, err, effectRan, title, busy, itemBusy,
                 inflight, remote, nextId, history>>

----------------------------------------------------------------------------
\* NewTaskInput and addTask

\* onChange={(e) => setTitle(e.target.value)} of an input that is enabled
SetTitle(text) ==
  /\ mounted
  /\ ~(busy \/ loading)
  /\ text # title
  /\ title' = text
  /\ UNCHANGED <<issued, todos, loading, err, mounted, effectRan, busy, itemBusy,
                 inflight, remote, nextId, history>>

\* Mutant of AddTask: no setErr('') at the start
AddTaskKeepsErr(newTitle) ==
  /\ err' = err
  /\ Issue(Call("add", "POST", 0, [title |-> newTitle], NoTask))
  /\ UNCHANGED todos

\* addTask up to its await: setErr(''); apiFetch('/todos', {method: 'POST', ...})
AddTask(newTitle) ==
  /\ err' = ""
  /\ Issue(Call("add", "POST", 0, [title |-> newTitle], NoTask))
  /\ UNCHANGED todos

\* Mutant of Submit: the guard tests the text as typed, not trimmed
SubmitTestsUntrimmed ==
  /\ mounted
  /\ LET trimmed == Trim(title) IN
       IF title = <<>> \/ busy \/ loading
       THEN UNCHANGED vars
       ELSE /\ busy' = TRUE
            /\ AddTask(trimmed)
            /\ UNCHANGED <<loading, mounted, effectRan, title, itemBusy,
                           remote, nextId>>

\* Mutant of Submit: the guard does not test busy
SubmitIgnoresBusy ==
  /\ mounted
  /\ LET trimmed == Trim(title) IN
       IF trimmed = <<>> \/ loading
       THEN UNCHANGED vars
       ELSE /\ busy' = TRUE
            /\ AddTask(trimmed)
            /\ UNCHANGED <<loading, mounted, effectRan, title, itemBusy,
                           remote, nextId>>

\* submit up to its await
Submit ==
  /\ mounted
  /\ LET trimmed == Trim(title) IN
       IF trimmed = <<>> \/ busy \/ loading
       THEN UNCHANGED vars
       ELSE /\ busy' = TRUE
            /\ AddTask(trimmed)
            /\ UNCHANGED <<loading, mounted, effectRan, title, itemBusy,
                           remote, nextId>>

\* Mutant of AddSettle: setBusy(false) at the end of the try, not in a
\* finally
AddSettleResetsInTry(i) ==
  /\ Replied(i)
  /\ inflight[i].op = "add"
  /\ LET r == ApiFetch(inflight[i].res) IN
       /\ todos' = IF r.threw THEN todos ELSE Prepend(todos, r.value)
       /\ title' = IF r.threw THEN title ELSE <<>>
       /\ busy' = IF r.threw THEN busy ELSE FALSE
  /\ inflight' = RemoveAt(inflight, i)
  /\ UNCHANGED <<issued, loading, err, mounted, effectRan, itemBusy, remote, nextId,
                 history>>

\* addTask after its await, then the rest of submit: setTodos((prev) =>
\* [created, ...prev]); setTitle(''); and finally setBusy(false).  addTask
\* has no catch: a failed call skips both setters and reaches the finally.
AddSettle(i) ==
  /\ Replied(i)
  /\ inflight[i].op = "add"
  /\ LET r == ApiFetch(inflight[i].res) IN
       /\ todos' = IF r.threw THEN todos ELSE Prepend(todos, r.value)
       /\ title' = IF r.threw THEN title ELSE <<>>
  /\ busy' = FALSE
  /\ inflight' = RemoveAt(inflight, i)
  /\ UNCHANGED <<issued, loading, err, mounted, effectRan, itemBusy, remote, nextId,
                 history>>

----------------------------------------------------------------------------
\* TodoItem and deleteTask, toggleTask, editTask

\* A TodoItem is on the page: TodoList renders the items once loading is over
OnPage(id) == mounted /\ ~loading /\ HasId(todos, id)

\* the item prop of the TodoItem with that key
ItemOf(id) == Last(ById(todos, id))

\* Mutant of OnDelete: the entry is taken out before the call resolves
OnDeleteOptimistic(id) ==
  /\ OnPage(id)
  /\ err' = ""
  /\ todos' = RemoveById(todos, id)
  /\ Issue(Call("delete", "DELETE", id, NoBody, NoTask))
  /\ UNCHANGED <<loading, mounted, effectRan, title, busy, itemBusy,
                 remote, nextId>>

\* onClick={() => onDelete(item.id)}: deleteTask up to its await
OnDelete(id) ==
  /\ OnPage(id)
  /\ err' = ""
  /\ Issue(Call("delete", "DELETE", id, NoBody, NoTask))
  /\ UNCHANGED <<todos, loading, mounted, effectRan, title, busy, itemBusy,
                 remote, nextId>>

\* deleteTask after its await; a failed call throws out of the handler
DeleteSettle(i) ==
  /\ Replied(i)
  /\ inflight[i].op = "delete"
  /\ LET r == ApiFetch(inflight[i].res) IN
       /\ todos' = IF r.threw THEN todos ELSE RemoveById(todos, inflight[i].id)
       /\ itemBusy' = itemBusy \cap Ids(todos')
       /\ history' = [history EXCEPT !.removed = @ \cup (Ids(todos) \ Ids(todos'))]
  /\ inflight' = RemoveAt(inflight, i)
  /\ UNCHANGED <<issued, loading, err, mounted, effectRan, title, busy, remote,
                 nextId>>

\* onChange={() => onToggle(item)}: toggleTask up to its await
OnToggle(id) ==
  /\ OnPage(id)
  /\ LET item == ItemOf(id) IN
       /\ err' = ""
       /\ todos' = OptimisticToggle(todos, item)
       /\ Issue(Call("toggle", "PATCH", item.id,
                     [completed |-> ~item.completed], item))
  /\ UNCHANGED <<loading, mounted, effectRan, title, busy, itemBusy, remote,
                 nextId>>

\* toggleTask after its await: reconcile, or roll back in the catch;
\* updated.id of a null result throws inside the try
ToggleSettle(i) ==
  /\ Replied(i)
  /\ inflight[i].op = "toggle"
  /\ LET r == ApiFetch(inflight[i].res)
         item == inflight[i].item IN
       IF r.threw \/ r.isNull
       THEN /\ todos' = RollbackToggle(todos, item)
            /\ err' = OrElse(IF r.threw THEN r.message
                             ELSE "Cannot read properties of null",
                             "Failed to toggle task")
       ELSE /\ todos' = ReconcileToggle(todos, r.value)
            /\ err' = err
  /\ inflight' = RemoveAt(inflight, i)
  /\ UNCHANGED <<issued, loading, mounted, effectRan, title, busy, itemBusy, remote,
                 nextId, history>>

\* editTask up to its await
EditTask(id, newTitle) ==
  /\ err' = ""
  /\ LET found == ById(todos, id) IN
       IF found = <<>>
       THEN UNCHANGED <<todos, inflight, issued, history>>
       ELSE /\ todos' = OptimisticEdit(todos, id, newTitle)
            /\ Issue(Call("edit", "PATCH", id, [title |-> newTitle], Last(found)))

\* commit up to its await; val is the text of the edit input, which is
\* disabled while the TodoItem is busy
Commit(id, val) ==
  /\ OnPage(id)
  /\ id \notin itemBusy
  /\ LET item == ItemOf(id)
         next == Trim(val) IN
       IF next # <<>> /\ next # item.title
       THEN /\ itemBusy' = itemBusy \cup {item.id}
            /\ EditTask(item.id, next)
            /\ UNCHANGED <<loading, mounted, effectRan, title, busy, remote,
                           nextId>>
       ELSE UNCHANGED vars

\* editTask after its await, then the finally of commit: setBusy(false)
EditSettle(i) ==
  /\ Replied(i)
  /\ inflight[i].op = "edit"
  /\ LET r == ApiFetch(inflight[i].res)
         id == inflight[i].id
         existing == inflight[i].item IN
       IF r.threw
       THEN /\ todos' = RollbackEdit(todos, id, existing)
            /\ err' = OrElse(r.message, "Failed to update task")
       ELSE /\ todos' = ReconcileEdit(todos, id, r.value)
            /\ err' = err
  /\ itemBusy' = itemBusy \ {inflight[i].id}
  /\ inflight' = RemoveAt(inflight, i)
  /\ UNCHANGED <<issued, loading, mounted, effectRan, title, busy, remote, nextId,
                 history>>

----------------------------------------------------------------------------
\* The backend and the network (the HTTP resource contract)

ErrTexts == {""}

SetAt(list, i, x) == [list EXCEPT ![i] = x]

Reply(i, res, didApply) ==
  inflight' = SetAt(inflight, i, [inflight[i] EXCEPT !.phase = "replied",
                                                     !.res = res,
                                                     !.applied = didApply])

\* GET /todos -> the array of tasks
\* POST /todos {title} -> the created task, fresh id, completed false
\* PATCH /todos/{id} {fields} -> the updated task; 404 when there is none
\* DELETE /todos/{id} -> 204, empty body; 404 when there is none
ServerHandle(i) ==
  /\ Sent(i)
  /\ LET c == inflight[i] IN
       CASE c.method = "GET" ->
              /\ Reply(i, JsonResponse(200, remote), TRUE)
              /\ UNCHANGED <<remote, nextId>>
         [] c.method = "POST" ->
              /\ LET created == [id |-> nextId, title |-> c.body.title,
                                 completed |-> FALSE] IN
                   /\ remote' = Append(remote, created)
                   /\ Reply(i, JsonResponse(201, created), TRUE)
              /\ nextId' = nextId + 1
         [] c.method = "PATCH" ->
              IF HasId(remote, c.id)
              THEN LET updated == Spread(Last(ById(remote, c.id)), c.body) IN
                     /\ remote' = [k \in 1..Len(remote) |->
                                     IF remote[k].id = c.id THEN updated ELSE remote[k]]
                     /\ Reply(i, JsonResponse(200, updated), TRUE)
                     /\ UNCHANGED nextId
              ELSE /\ Reply(i, TextResponse(404, "Not Found"), FALSE)
                   /\ UNCHANGED <<remote, nextId>>
         [] c.method = "DELETE" ->
              IF HasId(remote, c.id)
              THEN /\ remote' = RemoveById(remote, c.id)
                   /\ Reply(i, EmptyResponse(NoContent), TRUE)
                   /\ UNCHANGED nextId
              ELSE /\ Reply(i, TextResponse(404, "Not Found"), FALSE)
                   /\ UNCHANGED <<remote, nextId>>
  /\ UNCHANGED <<issued, todos, loading, err, mounted, effectRan, title, busy,
                 itemBusy, history>>

\* a non-2xx response with an optional plain-text body; nothing is applied
ServerError(i, text) ==
  /\ Sent(i)
  /\ Reply(i, TextResponse(500, text), FALSE)
  /\ UNCHANGED <<issued, todos, loading, err, mounted, effectRan, title, busy,
                 itemBusy, remote, nextId, history>>

\* the request could not complete: fetch rejects although the backend has
\* handled the request (the response is lost).  A request lost before the
\* backend saw it leaves the same state as ServerError.
NetworkFailure(i) ==
  /\ Replied(i)
  /\ inflight[i].applied
  /\ inflight' = SetAt(inflight, i, [inflight[i] EXCEPT !.phase = "replied",
                                                        !.res = Rejected])
  /\ history' = [history EXCEPT !.lost = @ \/ inflight[i].method # "GET"]
  /\ UNCHANGED <<issued, todos, loading, err, mounted, effectRan, title, busy,
                 itemBusy, remote, nextId>>

----------------------------------------------------------------------------
Next ==
  \/ LoadStart
  \/ \E i \in 1..Len(inflight) : LoadSettle(i)
  \/ Unmount
  \/ \E text \in Texts : SetTitle(text)
  \/ Submit
  \/ \E i \in 1..Len(inflight) : AddSettle(i)
  \/ \E id \in Ids(todos) : OnDelete(id)
  \/ \E i \in 1..Len(inflight) : DeleteSettle(i)
  \/ \E id \in Ids(todos) : OnToggle(id)
  \/ \E i \in 1..Len(inflight) : ToggleSettle(i)
  \/ \E id \in Ids(todos), val \in Texts : Commit(id, val)
  \/ \E i \in 1..Len(inflight) : EditSettle(i)
  \/ \E i \in 1..Len(inflight) : ServerHandle(i)
  \/ \E i \in 1..Len(inflight), text \in ErrTexts : ServerError(i, text)
  \/ \E i \in 1..Len(inflight) : NetworkFailure(i)

Spec == Init /\ [][Next]_vars

\* The same program where what is due does happen: React runs the effect of
\* a mounted App, the load's request gets an answer (the backend handles or
\* refuses it), and the continuation of an answered load runs.
LoadAnswered ==
  \E i \in 1..Len(inflight) :
     inflight[i].op = "load" /\ (ServerHandle(i) \/ ServerError(i, ""))

LoadSettled == \E i \in 1..Len(inflight) : LoadSettle(i)

FairSpec ==
  Spec /\ WF_vars(LoadStart) /\ WF_vars(LoadAnswered) /\ WF_vars(LoadSettled)

----------------------------------------------------------------------------
\* Steps, as the properties below read them

\* the continuation of call i runs: only a continuation takes a call out
Settles(i) == Replied(i) /\ inflight' = RemoveAt(inflight, i)

\* call i is about to fail: apiFetch throws
Fails(i) == Replied(i) /\ ApiFetch(inflight[i].res).threw

\* a handler issues a call of that op in this step
Issues(op) == Len(inflight') = Len(inflight) + 1 /\ Last(inflight').op = op

Quiet == effectRan /\ inflight = <<>>

Elems(list) == {list[k] : k \in 1..Len(list)}

\* the same tasks, whatever their order
SameTasks(a, b) == Len(a) = Len(b) /\ Elems(a) = Elems(b)

----------------------------------------------------------------------------
\* C1: when a toggle's PATCH fails, the entry with item.id, if still in the
\* collection once the rollback has run, has the completed value the entry
\* had just before that toggle's optimistic flip (which the toggle did flip).
C1_ToggleFailureRestoresCompleted ==
  /\ [][Issues("toggle") =>
          LET call == Last(inflight') IN
            \A k \in 1..Len(todos) : todos[k].id = call.id =>
               /\ call.item.completed = todos[k].completed
               /\ todos'[k].completed = ~todos[k].completed]_vars
  /\ [][\A i \in 1..Len(inflight) :
          (inflight[i].op = "toggle" /\ Fails(i) /\ Settles(i)) =>
             \A k \in 1..Len(todos') : todos'[k].id = inflight[i].item.id =>
                todos'[k].completed = inflight[i].item.completed]_vars

\* A toggle of task 1 was the only call after the load, its response was
\* lost, and the rollback has run: the backend holds the flipped value, the
\* collection the value from before the toggle.
C1_Witness ==
  /\ Quiet /\ issued = 2 /\ err = "Failed to fetch"
  /\ Len(todos) = 1 /\ Len(remote) = 1
  /\ todos[1] = [id |-> 1, title |-> SeedTitle(1), completed |-> SeedDone(1)]
  /\ remote[1] = [id |-> 1, title |-> SeedTitle(1), completed |-> ~SeedDone(1)]

\* C2: when an edit's PATCH fails, the entry with that id, if still in the
\* collection once the rollback has run, equals in every field the entry as
\* it was just before the edit's optimistic title replacement.
C2_EditFailureRestoresEntry ==
  /\ [][Issues("edit") =>
          LET call == Last(inflight') IN
            \A k \in 1..Len(todos) : todos[k].id = call.id =>
               /\ call.item = todos[k]
               /\ todos'[k] = [todos[k] EXCEPT !.title = call.body.title]]_vars
  /\ [][\A i \in 1..Len(inflight) :
          (inflight[i].op = "edit" /\ Fails(i) /\ Settles(i)) =>
             \A k \in 1..Len(todos') : todos'[k].id = inflight[i].id =>
                todos'[k] = inflight[i].item]_vars

\* An edit of task 1 was the only call after the load, its response was
\* lost, and the rollback has run: the backend holds the new title, the
\* collection the entry from before the edit.
C2_Witness ==
  /\ Quiet /\ issued = 2 /\ err = "Failed to fetch"
  /\ Len(todos) = 1 /\ Len(remote) = 1
  /\ todos[1] = [id |-> 1, title |-> SeedTitle(1), completed |-> SeedDone(1)]
  /\ remote[1] = [id |-> 1, title |-> <<"b">>, completed |-> SeedDone(1)]

\* C3: the amended claim.  Once the initial load has been applied, and as
\* long as no response to a request the backend applied was lost and no two
\* PATCH calls for the same task were in flight together, whenever no call
\* is in flight the collection holds exactly the backend's tasks, with the
\* same id, title and completed.
C3_QuietCollectionEqualsRemote ==
  (Quiet /\ history.loaded /\ ~history.raced /\ ~history.lost) =>
     SameTasks(todos, remote)

\* The load, an add and a delete of the seed task have all settled with
\* success: the collection and the backend both hold the created task alone.
C3_Witness ==
  /\ Quiet /\ history.loaded /\ ~history.raced /\ ~history.lost
  /\ issued = 3 /\ err = ""
  /\ Len(todos) = 1 /\ todos[1].id = 2
  /\ SameTasks(todos, remote)

\* C3 as stated: after the load, whatever the create/toggle/edit/delete
\* calls did, the collection equals the backend's once no call is in flight.
C3_Original == (Quiet /\ history.loaded) => SameTasks(todos, remote)

\* C4: in every reachable state the collection holds at most one entry per
\* id (the backend assigns fresh ids on create and echoes the id on update).
C4_OneEntryPerId == Cardinality(Ids(todos)) = Len(todos)

\* Task 1 was toggled and toggled again before the first PATCH resolved:
\* both calls are in flight, the first has its response, and the collection
\* still holds task 1 once.
C4_Witness ==
  /\ Len(inflight) = 2
  /\ inflight[1].op = "toggle" /\ inflight[2].op = "toggle"
  /\ inflight[1].id = 1 /\ inflight[2].id = 1
  /\ inflight[1].phase = "replied"
  /\ Len(todos) = 1 /\ todos[1].id = 1

\* C5: when a delete succeeds, the collection afterwards is the collection
\* before with exactly one entry taken out, the one with that id; the other
\* entries stay, unchanged and in the same order.
C5_DeleteRemovesExactlyOne ==
  [][\A i \in 1..Len(inflight) :
       (inflight[i].op = "delete" /\ ~Fails(i) /\ Settles(i)) =>
          \E k \in 1..Len(todos) :
             /\ todos[k].id = inflight[i].id
             /\ todos' = RemoveAt(todos, k)]_vars

\* After the load, task 2 was created and then deleted, both with success:
\* the backend has handed out id 2, and the collection holds the seed task
\* alone, as the backend does.
C5_Witness ==
  /\ Quiet /\ history.loaded /\ ~history.lost
  /\ issued = 3 /\ nextId = 3
  /\ Len(todos) = 1 /\ todos[1].id = 1
  /\ todos = remote

\* C6: when the load's GET succeeds with list L while the App is mounted,
\* the state after the load's continuation has the collection equal to L
\* (same entries, same order), loading false and an empty error message.
C6_LoadSuccessSetsCollection ==
  [][\A i \in 1..Len(inflight) :
       (inflight[i].op = "load" /\ ~Fails(i) /\ Settles(i) /\ mounted) =>
          /\ todos' = inflight[i].res.json
          /\ loading' = FALSE
          /\ err' = ""]_vars

\* The load has settled with the backend's one task and nothing else has
\* been called.
C6_Witness ==
  /\ Quiet /\ issued = 1 /\ mounted /\ history.loaded
  /\ todos = <<[id |-> 1, title |-> SeedTitle(1), completed |-> SeedDone(1)]>>
  /\ ~loading /\ err = ""

\* C7: when the load's GET fails while the App is mounted, the error message
\* becomes non-empty, the collection stays empty and loading becomes false;
\* and, success or failure, the loading flag of an App that stays mounted is
\* eventually cleared.
C7_LoadFailureAndLoadingCleared ==
  /\ [][\A i \in 1..Len(inflight) :
          (inflight[i].op = "load" /\ Fails(i) /\ Settles(i) /\ mounted) =>
             /\ err' # ""
             /\ todos = <<>> /\ todos' = <<>>
             /\ loading' = FALSE]_vars
  /\ (mounted /\ loading) ~> (~loading \/ ~mounted)

\* The load has failed with the backend holding a task: the message is
\* shown, the collection is empty, loading is over.
C7_Witness ==
  /\ Quiet /\ issued = 1 /\ mounted /\ ~history.loaded
  /\ Len(remote) = 1 /\ todos = <<>>
  /\ ~loading /\ err = "Request failed with status 500"

\* C8: no POST and no title PATCH is ever issued with a title that is empty
\* after trimming.  A submit of an empty or blank input issues no call and
\* changes neither the collection nor the error message; an add that is
\* issued sends the trimmed input; a commit whose trimmed value is empty
\* issues no call.
C8_NoEmptyTitleSent ==
  /\ [](\A i \in 1..Len(inflight) :
          inflight[i].op \in {"add", "edit"} => Trim(inflight[i].body.title) # <<>>)
  /\ [][(Trim(title) = <<>> /\ Submit) =>
          (inflight' = inflight /\ todos' = todos /\ err' = err)]_vars
  /\ [][Issues("add") => Last(inflight').body.title = Trim(title)]_vars
  /\ [][(inflight' # inflight \/ todos' # todos \/ err' # err) =>
          \A id \in Ids(todos), val \in Texts :
             Trim(val) = <<>> => ~Commit(id, val)]_vars

\* The load is over, nothing is in flight, and the new-task input, enabled,
\* holds blanks only, next to a task whose title could be edited.
C8_Witness ==
  /\ Quiet /\ mounted /\ ~loading /\ ~busy
  /\ title = <<" ", " ">>
  /\ Len(todos) = 1

\* C9: a 204 response is a successful empty result: apiFetch returns null,
\* without parsing a body and without raising; a delete whose DELETE is
\* answered 204 ends without an error message and with no entry of that id.
C9_NoContentIsSuccess ==
  /\ [](\A i \in 1..Len(inflight) :
          inflight[i].res.status = NoContent => ApiFetch(inflight[i].res) = ReturnNull)
  /\ [][\A i \in 1..Len(inflight) :
          (inflight[i].op = "delete" /\ inflight[i].res.status = NoContent
             /\ Settles(i)) =>
               (~HasId(todos', inflight[i].id) /\ err' = err)]_vars

\* The one task was deleted, the DELETE answered 204: the collection and
\* the backend are empty and no message is shown.
C9_Witness ==
  /\ Quiet /\ history.loaded /\ ~history.lost
  /\ issued = 2 /\ nextId = 2
  /\ todos = <<>> /\ remote = <<>> /\ err = ""

\* C10: the amended claim.  Every operation clears the error message when
\* it starts; the message is set only by the failure of a load, a toggle or
\* an edit; a continuation that ends with success leaves the message as it
\* is.  So after a success the message is empty unless another operation
\* failed since this one started.
C10_ErrClearedAtStartSetByFailure ==
  /\ [][(\E op \in {"load", "add", "delete", "toggle", "edit"} : Issues(op)) =>
          err' = ""]_vars
  /\ [][(err' # err /\ err' # "") =>
          \E i \in 1..Len(inflight) :
             /\ inflight[i].op \in {"load", "toggle", "edit"}
             /\ Fails(i) /\ Settles(i)]_vars
  /\ [][\A i \in 1..Len(inflight) : (~Fails(i) /\ Settles(i)) => err' = err]_vars

\* A call is about to end with success while the message of another
\* operation's failure is shown.
C10_Witness ==
  /\ Len(inflight) = 1 /\ Replied(1) /\ ~Fails(1)
  /\ err # ""

\* C10 as stated: right after any operation settles with success, the error
\* message is empty, under any interleaving.
C10_Original ==
  [][\A i \in 1..Len(inflight) : (~Fails(i) /\ Settles(i)) => err' = ""]_vars

\* C11: when the remote call of a create, a toggle, an edit or a delete
\* fails, the error message is non-empty once the failing operation has
\* settled.  addTask and deleteTask have no catch: their failure sets no
\* message, so the statement fails for create and for delete.
C11_FailureSetsErr ==
  [][\A i \in 1..Len(inflight) :
       (inflight[i].op \in {"add", "delete", "toggle", "edit"}
          /\ Fails(i) /\ Settles(i)) => err' # ""]_vars

\* C12: add and delete are not optimistic.  The step that starts either
\* leaves the collection as it is, and so does the arrival of any response;
\* when the call fails, the continuation leaves the collection exactly as
\* it was and the rejection goes through to the caller: the handler sets no
\* error message, and submit, the caller of addTask, skips its
\* setTitle('').
C12_AddDeleteNotOptimistic ==
  /\ [][(Issues("add") \/ Issues("delete")) => todos' = todos]_vars
  /\ [][(Len(inflight') = Len(inflight)
            /\ \E i \in 1..Len(inflight) : Sent(i) /\ inflight'[i].phase = "replied")
          => todos' = todos]_vars
  /\ [][\A i \in 1..Len(inflight) :
          (inflight[i].op \in {"add", "delete"} /\ Fails(i) /\ Settles(i)) =>
             (todos' = todos /\ err' = err /\ title' = title)]_vars

\* The response to a POST the backend had applied was lost and the add has
\* settled: the backend holds the created task, the collection does not,
\* and the input still holds the text.
C12_Witness ==
  /\ Quiet /\ issued = 2 /\ history.loaded /\ history.lost
  /\ Len(remote) = 2 /\ Len(todos) = 1 /\ nextId = 3
  /\ title # <<>> /\ ~busy /\ err = ""

\* the ids of a list in display order, keeping those of a set
KeepIds(list, S) ==
  SelectSeq([k \in 1..Len(list) |-> list[k].id], LAMBDA id : id \in S)

\* C13: the collection preserves display order.  A successful add puts the
\* returned task at the front, the prior entries following in their order;
\* and no step of a toggle, an edit or a delete (start, reconciliation,
\* rollback, removal) changes the relative order of two entries that are in
\* the collection before and after it.
C13_OrderPreserved ==
  /\ [][\A i \in 1..Len(inflight) :
          (inflight[i].op = "add" /\ ~Fails(i) /\ Settles(i)) =>
             todos' = <<ApiFetch(inflight[i].res).value>> \o todos]_vars
  /\ [][(\A i \in 1..Len(inflight) : ~(inflight[i].op = "load" /\ Settles(i))) =>
          KeepIds(todos', Ids(todos)) = KeepIds(todos, Ids(todos'))]_vars

\* Task 2 was created after the load and stands before task 1, which was
\* then toggled with success: both entries are still in that order.
C13_Witness ==
  /\ Quiet /\ issued = 3 /\ history.loaded /\ ~history.lost
  /\ Len(todos) = 2 /\ todos[1].id = 2 /\ todos[2].id = 1
  /\ todos[2].completed = ~SeedDone(1)
  /\ todos = <<remote[2], remote[1]>>

\* C14: when the entry of a toggle or an edit in flight is no longer in the
\* collection, the settlement of that operation (reconciliation or
\* rollback) leaves the collection as it is; and an id whose entry a
\* successful delete has taken out is never in the collection again.
C14_SettleAfterDeleteIsNoOp ==
  /\ [](\A id \in history.removed : ~HasId(todos, id))
  /\ [][\A i \in 1..Len(inflight) :
          (inflight[i].op \in {"toggle", "edit"} /\ Settles(i)
             /\ ~HasId(todos, inflight[i].id)) => todos' = todos]_vars

\* Task 1 was deleted with success while a toggle or an edit of it was in
\* flight; that call has its response and is about to settle.
C14_Witness ==
  /\ Len(inflight) = 1 /\ Replied(1)
  /\ inflight[1].op \in {"toggle", "edit"} /\ inflight[1].id = 1
  /\ 1 \in history.removed /\ ~HasId(todos, 1)

----------------------------------------------------------------------------
\* The controller called directly.  From the page, editTask only ever gets
\* the id of a rendered entry (Commit); its branch for an id without an
\* entry is taken only when the operation is called as the controller's
\* Edit(id, title), with any id the backend has handed out or will.

CallIds == 1..(MaxSeed + MaxCalls)

EditCall(id, newTitle) ==
  /\ mounted
  /\ ~HasId(todos, id)
  /\ EditTask(id, newTitle)
  /\ UNCHANGED <<loading, mounted, effectRan, title, busy, itemBusy, remote,
                 nextId>>

ControllerNext ==
  \/ Next
  \/ \E id \in CallIds, text \in Texts : EditCall(id, Trim(text))

ControllerSpec == Init /\ [][ControllerNext]_vars

\* C15: editTask(id, title) called when no entry has that id issues no
\* remote call and leaves the collection, the loading flag and the error
\* message as they are.  The code runs setErr('') before it looks the id
\* up, so a message that is shown is cleared.
C15_EditAbsentIsNoOp ==
  [][\A id \in CallIds, text \in Texts :
       EditCall(id, Trim(text)) =>
          (inflight' = inflight /\ todos' = todos /\ loading' = loading
             /\ err' = err)]_vars

----------------------------------------------------------------------------
\* The program where a create call gets its answer (the backend handles or
\* refuses it) and the continuation of an answered create runs.
AddAnswered ==
  \E i \in 1..Len(inflight) :
     inflight[i].op = "add" /\ (ServerHandle(i) \/ ServerError(i, ""))

AddSettled == \E i \in 1..Len(inflight) : AddSettle(i)

FairAddSpec == Spec /\ WF_vars(AddAnswered) /\ WF_vars(AddSettled)

\* C16: no failure leaves a control disabled.  While the page is up, the
\* new-task input is busy exactly while its create call is in flight, a
\* TodoItem is busy only while its edit is in flight, and loading is set
\* only until the load settles; the continuation of a create call, failed
\* or not, resets busy, and that of an edit releases its TodoItem; and a
\* busy new-task input is eventually not busy.
C16_NoFailureIsFatal ==
  /\ [](mounted => (busy <=> Pending("add")))
  /\ [](\A id \in itemBusy :
          \E i \in 1..Len(inflight) : inflight[i].op = "edit" /\ inflight[i].id = id)
  /\ []((mounted /\ loading) => (~effectRan \/ Pending("load")))
  /\ [][\A i \in 1..Len(inflight) :
          (inflight[i].op = "add" /\ Settles(i)) => busy' = FALSE]_vars
  /\ [][\A i \in 1..Len(inflight) :
          (inflight[i].op = "edit" /\ Settles(i)) => inflight[i].id \notin itemBusy']_vars
  /\ busy ~> ~busy

\* A create failed (its response was lost after the backend had made task
\* 2), the input kept its text and was submitted again, and that create
\* succeeded: task 3 stands at the front and the input is free again.
C16_Witness ==
  /\ Quiet /\ mounted /\ issued = 3 /\ history.lost
  /\ nextId = 4 /\ Len(remote) = 3
  /\ Len(todos) = 2 /\ todos[1].id = 3 /\ todos[2].id = 1
  /\ ~busy /\ title = <<>>

\* C17: when the PATCH of a toggle or an edit succeeds with a task, the
\* continuation puts the returned task, whole, in the place of the entry
\* with that id, whatever the entry holds by then, and leaves every other
\* entry as it is; without such an entry the collection is unchanged.
C17_ReconcileReplacesWhole ==
  [][\A i \in 1..Len(inflight) :
       (inflight[i].op \in {"toggle", "edit"} /\ ~Fails(i) /\ Settles(i)
          /\ ~ApiFetch(inflight[i].res).isNull) =>
            /\ Len(todos') = Len(todos)
            /\ \A k \in 1..Len(todos) :
                  todos'[k] = IF todos[k].id = inflight[i].id
                              THEN ApiFetch(inflight[i].res).value
                              ELSE todos[k]]_vars

\* Task 1 was toggled and its title edited while the toggle was in flight;
\* the backend handled the toggle first, and the toggle's continuation has
\* put the returned task in: the entry holds the backend's title again, not
\* the edit's optimistic one, while the edit is still in flight.
C17_Witness ==
  /\ Len(inflight) = 1 /\ inflight[1].op = "edit" /\ inflight[1].id = 1
  /\ issued = 3 /\ err = ""
  /\ Len(todos) = 1
  /\ todos[1] = [id |-> 1, title |-> SeedTitle(1), completed |-> ~SeedDone(1)]
  /\ inflight[1].body.title # todos[1].title

\* C18: when the App is torn down while the initial load is in flight, the
\* load's continuation, on success or failure, applies nothing: from the
\* teardown on, the collection, the error message and the loading flag keep
\* their values.
C18_StaleLoadAppliesNothing ==
  /\ [][\A i \in 1..Len(inflight) :
          (inflight[i].op = "load" /\ Settles(i) /\ ~mounted) =>
             (todos' = todos /\ err' = err /\ loading' = loading)]_vars
  /\ [][~mounted => (todos' = todos /\ err' = err /\ loading' = loading)]_vars

\* The App was torn down with the GET in flight and the load has settled
\* since: the backend's task was not put in, loading is still set and no
\* message is shown.
C18_Witness ==
  /\ ~mounted /\ Quiet /\ issued = 1
  /\ Len(remote) = 1
  /\ todos = <<>> /\ loading /\ err = ""

\* C20: the new-task input has at most one create call in flight at any
\* time; a create is issued only by a submit when the input is not busy
\* and the load is over (a submit while busy or loading issues nothing),
\* it sends the trimmed text of the input and leaves the text in place;
\* the continuation of a create empties the input when the call succeeded
\* and leaves its text as it is when the call failed.
C20_OneCreateAtATime ==
  /\ [](Cardinality({i \in 1..Len(inflight) : inflight[i].op = "add"}) <= 1)
  /\ [][Issues("add") =>
          /\ ~busy /\ ~loading /\ busy'
          /\ Last(inflight').body.title = Trim(title)
          /\ title' = title]_vars
  /\ [][\A i \in 1..Len(inflight) :
          (inflight[i].op = "add" /\ Settles(i)) =>
             title' = IF Fails(i) THEN title ELSE <<>>]_vars

\* A create is in flight: the input is busy and still holds the text as
\* typed, blanks included, while the request carries the trimmed title.
C20_Witness ==
  /\ Len(inflight) = 1 /\ inflight[1].op = "add" /\ Sent(1)
  /\ busy /\ ~loading
  /\ title = <<" ", "a", " ">>
  /\ inflight[1].body.title = <<"a">>

----------------------------------------------------------------------------
\* The App once the initial load has put the backend's tasks in, with the
\* operations of the TodoItems alone: toggle, edit and delete, on any of
\* the tasks, overlapping in any way.

LoadedTasks ==
  [i \in 1..(MaxSeed + 1) |->
     [id |-> i, title |-> SeedTitle(i), completed |-> SeedDone(i)]]

TasksInit ==
  /\ todos = LoadedTasks
  /\ loading = FALSE
  /\ err = ""
  /\ mounted = TRUE
  /\ effectRan = TRUE
  /\ title = <<>>
  /\ busy = FALSE
  /\ itemBusy = {}
  /\ inflight = <<>>
  /\ issued = 1
  /\ remote = LoadedTasks
  /\ nextId = Len(LoadedTasks) + 1
  /\ history = [loaded |-> TRUE, raced |-> FALSE, lost |-> FALSE,
                removed |-> {}]

TasksNext ==
  \/ \E id \in Ids(todos) : OnDelete(id)
  \/ \E i \in 1..Len(inflight) : DeleteSettle(i)
  \/ \E id \in Ids(todos) : OnToggle(id)
  \/ \E i \in 1..Len(inflight) : ToggleSettle(i)
  \/ \E id \in Ids(todos), val \in Texts : Commit(id, val)
  \/ \E i \in 1..Len(inflight) : EditSettle(i)
  \/ \E i \in 1..Len(inflight) : ServerHandle(i)
  \/ \E i \in 1..Len(inflight), text \in ErrTexts : ServerError(i, text)
  \/ \E i \in 1..Len(inflight) : NetworkFailure(i)

TasksSpec == TasksInit /\ [][TasksNext]_vars

\* the call this step is about: issued, answered, or settled by it
StepOf(c) ==
  \/ Len(inflight') = Len(inflight) + 1 /\ c = Last(inflight')
  \/ \E i \in 1..Len(inflight) :
        /\ c = inflight[i]
        /\ \/ Settles(i)
           \/ Len(inflight') = Len(inflight) /\ inflight'[i] # inflight[i]

\* the calls before and after this step
StepCalls == Elems(inflight) \cup Elems(inflight')

Started(c) == Len(inflight') = Len(inflight) + 1 /\ c = Last(inflight')

Answered(c) ==
  \E i \in 1..Len(inflight) :
     c = inflight[i] /\ Len(inflight') = Len(inflight) /\ inflight'[i] # inflight[i]

Ended(c) == \E i \in 1..Len(inflight) : c = inflight[i] /\ Settles(i)

\* what the handler of call c does to a list before its await
StartOn(list, c) ==
  CASE c.op = "toggle" -> OptimisticToggle(list, c.item)
    [] c.op = "edit" -> OptimisticEdit(list, c.id, c.body.title)
    [] OTHER -> list

\* what the continuation of call c does to a list
EndOn(list, c) ==
  LET r == ApiFetch(c.res) IN
    CASE c.op = "toggle" ->
           IF r.threw \/ r.isNull THEN RollbackToggle(list, c.item)
           ELSE ReconcileToggle(list, r.value)
      [] c.op = "edit" ->
           IF r.threw THEN RollbackEdit(list, c.id, c.item)
           ELSE ReconcileEdit(list, c.id, r.value)
      [] c.op = "delete" -> IF r.threw THEN list ELSE RemoveById(list, c.id)
      [] OTHER -> list

\* C19: toggle, edit and delete operations on different tasks are
\* independent.  Every step of an operation on one task (its start, the
\* answer to its call, its reconciliation, rollback or removal) leaves the
\* entry of every other task in the collection as it is, and does to the
\* entry of its own task what it would do were that entry the only one.
\* So the entry (or absence) of a task, at any time and once all have
\* settled, is what the steps of the operations on that task make of it,
\* however the steps of operations on other tasks are interleaved with
\* them.
C19_DistinctTasksIndependent ==
  [][\A c \in StepCalls :
       /\ StepOf(c) =>
            \A id \in (Ids(todos) \cup Ids(todos')) \ {c.id} :
               ById(todos', id) = ById(todos, id)
       /\ Started(c) => ById(todos', c.id) = StartOn(ById(todos, c.id), c)
       /\ Answered(c) => todos' = todos
       /\ Ended(c) => ById(todos', c.id) = EndOn(ById(todos, c.id), c)]_vars

\* A toggle of one task and a delete of another overlap: both calls are in
\* flight and answered, the toggle with a failure, the delete with
\* success, and either continuation may run first.
C19_Witness ==
  /\ Len(inflight) = 2 /\ Replied(1) /\ Replied(2)
  /\ inflight[1].op = "toggle" /\ inflight[2].op = "delete"
  /\ inflight[1].id # inflight[2].id
  /\ Fails(1) /\ ~Fails(2)
  /\ HasId(todos, inflight[1].id) /\ HasId(todos, inflight[2].id)

====
